---- MODULE Spec2Model ----
(***************************************************************************)
(* Model of slmsuite/hardware/cameras/simulated.py: SimulatedCam.          *)
(*                                                                         *)
(* The camera object's attributes are the variables; every method is one   *)
(* action.  Real numbers are exact rationals [n, d] in lowest terms (the   *)
(* code computes in binary floating point; rounding error is not           *)
(* modelled).  Angles are drawn from a set the sine and cosine of which    *)
(* are rational.  Arrays are sequences of rows.                            *)
(***************************************************************************)
EXTENDS Integers, Sequences, FiniteSets, TLC

\* ------------------------------------------------------------- bounds
\* SLM shape and camera resolution range over 1..MaxDim per axis.
MaxDim == 2
\* A caller-supplied f_eff ranges over 1..MaxFEff.
MaxFEff == 4
\* A caller-supplied offset is <<a, -a>> with a in 0..MaxOff.
MaxOff == 1
\* set_exposure is called with a value in 0..MaxExposure.
MaxExposure == 1
\* The SLM's phase pattern is one of the patterns 0..MaxPhase.
MaxPhase == 1

\* The SLM's pixel pitches (dx, dy), in wavelengths.
Pitches == {1, 2}
\* The SLM's fixed phase offset pattern.
PhaseOffsets == {1}
\* The rotation angles a caller supplies.
Thetas == {"0", "pi/2", "atan(3/4)"}
\* The basis values a caller supplies.
Bases == {"ij", "um"}

\* Python's None, and a value that is present.
None == <<>>
Some(v) == <<v>>

\* ---------------------------------------------------------- rationals
RECURSIVE GCD(_, _)
GCD(a, b) == IF b = 0 THEN a ELSE GCD(b, a % b)

AbsInt(k) == IF k < 0 THEN -k ELSE k

\* n / d (d # 0) in lowest terms with a positive denominator.
Rat(n, d) ==
    LET s == IF d < 0 THEN -1 ELSE 1
        g == GCD(AbsInt(n), AbsInt(d))
    IN  [n |-> (s * n) \div g, d |-> (s * d) \div g]

RInt(k) == [n |-> k, d |-> 1]
RAdd(a, b) == Rat(a.n * b.d + b.n * a.d, a.d * b.d)
RNeg(a) == [n |-> -a.n, d |-> a.d]
RSub(a, b) == RAdd(a, RNeg(b))
RMul(a, b) == Rat(a.n * b.n, a.d * b.d)
RDiv(a, b) == Rat(a.n * b.d, a.d * b.n)
RAbs(a) == [n |-> AbsInt(a.n), d |-> a.d]
RLt(a, b) == a.n * b.d < b.n * a.d
RLe(a, b) == a.n * b.d <= b.n * a.d
RMax(a, b) == IF RLt(a, b) THEN b ELSE a
\* floor and ceiling of a rational (\div rounds towards minus infinity).
RFloor(a) == a.n \div a.d
RCeil(a) == -((-a.n) \div a.d)

RECURSIVE RMaxOver(_)
\* The greatest element of a non-empty finite set of rationals.
RMaxOver(S) ==
    LET a == CHOOSE v \in S : TRUE
    IN  IF S = {a} THEN a ELSE RMax(a, RMaxOver(S \ {a}))

MaxInt(a, b) == IF a < b THEN b ELSE a

\* ----------------------------------------------------- array helpers
\* numpy's shape of a two-dimensional array held as a sequence of rows.
Shape(a) == <<Len(a), IF Len(a) = 0 THEN 0 ELSE Len(a[1])>>
\* The values of a two-dimensional array.
Values(a) == {a[r][c] : r \in 1..Len(a), c \in 1..Len(a[1])}

\* ------------------------------------------------------ trigonometry
\* cos(theta) and sin(theta) of the angles in Thetas.
Cos(theta) ==
    CASE theta = "0" -> RInt(1)
      [] theta = "pi/2" -> RInt(0)
      [] theta = "atan(3/4)" -> Rat(4, 5)

Sin(theta) ==
    CASE theta = "0" -> RInt(0)
      [] theta = "pi/2" -> RInt(1)
      [] theta = "atan(3/4)" -> Rat(3, 5)

\* --------------------------------------------------------- variables
VARIABLES
    slm,            \* the SLM: shape (rows, cols), dx, dy, phase, phase_offset, amp_profile
    state,          \* "Unconfigured", "Ready", or "Failed" (the constructor raised)
    call,           \* the constructor's arguments (None before the call)
    interpolate,    \* self._interpolate
    shape,          \* self.shape, set by Camera.__init__: (height, width)
    exposure,       \* self.exposure
    x_grid,         \* self.x_grid
    y_grid,         \* self.y_grid
    f_eff,          \* self.f_eff (None while unset)
    shape_padded,   \* self.shape_padded (None while unset)
    hologram,       \* self._hologram (None while unset)
    holograms,      \* the number of Hologram instances constructed so far
    err,            \* the exception the constructor raised (None when none)
    last            \* the last call made by the caller: its name, argument and
                    \* return value, and the phase the engine held when it began

vars == <<slm, state, call, interpolate, shape, exposure, x_grid, y_grid,
          f_eff, shape_padded, hologram, holograms, err, last>>

\* The attributes of the camera object that the constructor sets.
camera == <<interpolate, shape, exposure, x_grid, y_grid, f_eff,
            shape_padded, hologram, holograms>>

\* ------------------------------------------------ grid construction
\* numpy.linspace(-1/2, 1/2, num): num evenly spaced samples, both end
\* points included (a single sample is the start).
Linspace(num) ==
    [i \in 1..num |->
        IF num = 1 THEN Rat(-1, 2)
        ELSE RAdd(Rat(-1, 2), Rat(i - 1, num - 1))]

\* linspace(-1/2, 1/2, num) * num
ScaledLinspace(num) == [i \in 1..num |-> RMul(Linspace(num)[i], RInt(num))]

\* Mutation of Meshgrid: indexing "ij", which transposes both outputs.
MeshgridIJ(xs, ys) ==
    [x |-> [r \in 1..Len(xs) |-> [c \in 1..Len(ys) |-> xs[r]]],
     y |-> [r \in 1..Len(xs) |-> [c \in 1..Len(ys) |-> ys[c]]]]

\* numpy.meshgrid(xs, ys), indexing "xy": both outputs have Len(ys) rows
\* and Len(xs) columns.
Meshgrid(xs, ys) ==
    [x |-> [r \in 1..Len(ys) |-> [c \in 1..Len(xs) |-> xs[c]]],
     y |-> [r \in 1..Len(ys) |-> [c \in 1..Len(xs) |-> ys[r]]]]

\* rot = [[cos(-theta), sin(-theta)], [-sin(-theta), cos(-theta)]]
Rot(theta) ==
    <<<<Cos(theta), RNeg(Sin(theta))>>, <<Sin(theta), Cos(theta)>>>>

\* einsum('ji, mni -> jmn', rot, dstack([x, y])), unpacked along j.
Rotate(theta, g) ==
    LET rot == Rot(theta)
        out(j) == [m \in 1..Len(g.x) |-> [n \in 1..Len(g.x[1]) |->
                     RAdd(RMul(rot[j][1], g.x[m][n]), RMul(rot[j][2], g.y[m][n]))]]
    IN  [x |-> out(1), y |-> out(2)]

\* x_grid + offset[0], y_grid + offset[1]
Translate(offset, g) ==
    [x |-> [m \in 1..Len(g.x) |-> [n \in 1..Len(g.x[1]) |->
              RAdd(g.x[m][n], RInt(offset[1]))]],
     y |-> [m \in 1..Len(g.y) |-> [n \in 1..Len(g.y[1]) |->
              RAdd(g.y[m][n], RInt(offset[2]))]]]

\* slm.shape[::-1]
Reversed(s) == <<s[2], s[1]>>

\* The resolution the constructor works with.
Resolution(resolution) ==
    IF resolution = None THEN Reversed(slm.shape) ELSE resolution

\* self._interpolate as the constructor leaves it.
InterpolateFlag(resolution, theta, offset) ==
    \/ /\ resolution # None
       /\ \E i \in 1..2 : resolution[i] # Reversed(slm.shape)[i]
    \/ theta # "0"
    \/ offset # None

\* x_grid, y_grid as the constructor leaves them.
CameraGrid(resolution, theta, offset) ==
    LET res == Resolution(resolution)
        g0 == Meshgrid(ScaledLinspace(res[1]), ScaledLinspace(res[2]))
        g1 == IF theta # "0" THEN Rotate(theta, g0) ELSE g0
    IN  IF offset # None THEN Translate(offset, g1) ELSE g1

\* ----------------------------------------------------- focal length
\* Mutation of FMin: the factor 2 (the angular range is symmetric about
\* zero) is left out.
FMinHalf(xg, yg) ==
    RMax(RMul(RMaxOver({RAbs(v) : v \in Values(xg)}), RInt(slm.dx)),
         RMul(RMaxOver({RAbs(v) : v \in Values(yg)}), RInt(slm.dy)))

\* f_min = 2 * max([amax(abs(x_grid)) * slm.dx, amax(abs(y_grid)) * slm.dy])
FMin(xg, yg) ==
    RMul(RInt(2),
         RMax(RMul(RMaxOver({RAbs(v) : v \in Values(xg)}), RInt(slm.dx)),
              RMul(RMaxOver({RAbs(v) : v \in Values(yg)}), RInt(slm.dy))))

\* Mutation of FEffTooSmall: the boundary is rejected too (<=).
FEffTooSmallOrEqual(f, f_min) == RLe(f, f_min)

\* elif f_eff < f_min: raise RuntimeError
FEffTooSmall(f, f_min) == RLt(f, f_min)

\* ------------------------------------------------- far-field engine
\* Hologram.calculate_padded_shape(slm, precision): per axis, the least
\* size that is at least the SLM's and whose angular sampling step
\* 1 / (size * pitch) is at most the precision.
CalculatePaddedShape(precision) ==
    LET need(pitch) == RCeil(RDiv(RInt(1), RMul(precision, RInt(pitch))))
    IN  <<MaxInt(slm.shape[1], need(slm.dy)), MaxInt(slm.shape[2], need(slm.dx))>>

\* Hologram(shape, amp=..., phase=..., slm_shape=...)
Hologram(shp, amp, phase) == [shape |-> shp, amp |-> amp, phase |-> phase]

\* Hologram.reset_phase(phase)
ResetPhase(h, phase) == [h EXCEPT !.phase = phase]

\* abs(Hologram.extract_farfield()): an array of the padded shape that
\* is a function of the amplitude and phase the engine holds.  The values
\* stand for the magnitudes of the Fourier transform: they differ from
\* place to place and from phase to phase, and none is zero.
ExtractFarfield(h) ==
    [r \in 1..h.shape[1] |-> [c \in 1..h.shape[2] |->
        h.amp * (1 + h.phase + ((r + 2 * c) % 3))]]

\* toolbox.unpad(matrix, shape): the centred crop of matrix to shape.
Unpad(matrix, shp) ==
    LET pad_b == (Len(matrix) - shp[1]) \div 2
        pad_l == (Len(matrix[1]) - shp[2]) \div 2
    IN  [r \in 1..shp[1] |-> [c \in 1..shp[2] |-> matrix[pad_b + r][pad_l + c]]]

\* Camera.__init__(width, height) sets self.shape = (height, width).
CameraShape(width, height) == <<height, width>>

\* ----------------------------------------------------------- sampling
\* Mutation of MapCoordinates: mode="nearest", which replicates the edge
\* entries for coordinates outside the array.
MapCoordinatesNearest(input, coordinates) ==
    LET rows == Len(input)
        cols == Len(input[1])
        clamp(k, size) == IF k < 0 THEN 0 ELSE IF k > size - 1 THEN size - 1 ELSE k
        nearest(v) == RFloor(RAdd(v, Rat(1, 2)))
    IN  [m \in 1..Len(coordinates[1]) |-> [n \in 1..Len(coordinates[1][1]) |->
            input[clamp(nearest(coordinates[1][m][n]), rows) + 1]
                 [clamp(nearest(coordinates[2][m][n]), cols) + 1]]]

\* scipy.ndimage.map_coordinates(input, coordinates, order=0) with the
\* default mode="constant", cval=0.0: the output has the shape of
\* coordinates[0]; a coordinate outside [0, size - 1] on either axis gives
\* cval, any other gives the entry nearest to it (floor(c + 1/2)).
MapCoordinates(input, coordinates) ==
    LET rows == Len(input)
        cols == Len(input[1])
        inside(v, size) == RLe(RInt(0), v) /\ RLe(v, RInt(size - 1))
        nearest(v) == RFloor(RAdd(v, Rat(1, 2)))
    IN  [m \in 1..Len(coordinates[1]) |-> [n \in 1..Len(coordinates[1][1]) |->
            LET i == coordinates[1][m][n]
                j == coordinates[2][m][n]
            IN  IF inside(i, rows) /\ inside(j, cols)
                THEN input[nearest(i) + 1][nearest(j) + 1]
                ELSE 0]]

\* shape_padded[dim] / (f_eff / pitch) * grid + shape_padded[dim] / 2
Index(size, f, pitch, v) ==
    RAdd(RMul(RDiv(RInt(size), RDiv(f, RInt(pitch))), v), Rat(size, 2))

\* The coordinates array get_image hands to map_coordinates: the row
\* indices from y_grid and dy, the column indices from x_grid and dx.
Coordinates(xg, yg, f, padded) ==
    <<[m \in 1..Len(yg) |-> [n \in 1..Len(yg[1]) |->
          Index(padded[1], f, slm.dy, yg[m][n])]],
      [m \in 1..Len(xg) |-> [n \in 1..Len(xg[1]) |->
          Index(padded[2], f, slm.dx, xg[m][n])]]>>

\* cp.abs(ff)**2
Intensity(ff) ==
    [r \in 1..Len(ff) |-> [c \in 1..Len(ff[1]) |-> ff[r][c] * ff[r][c]]]

\* exposure * img
Scale(k, img) ==
    [r \in 1..Len(img) |-> [c \in 1..Len(img[1]) |-> k * img[r][c]]]

\* The phase get_image hands to Hologram.reset_phase.
LivePhase == slm.phase + slm.phase_offset

\* The image get_image computes from the far field ff.
Image(ff) ==
    Scale(exposure,
          IF interpolate
          THEN MapCoordinates(Intensity(ff),
                              Coordinates(x_grid, y_grid, f_eff[1], shape_padded))
          ELSE Unpad(Intensity(ff), shape))

\* ------------------------------------------------------------ actions
Resolutions == {None} \cup ((1..MaxDim) \X (1..MaxDim))
FEffs == {None} \cup {Some(f) : f \in 1..MaxFEff}
Offsets == {None} \cup {<<a, -a>> : a \in 0..MaxOff}

Init ==
    /\ slm \in [shape : (1..MaxDim) \X (1..MaxDim), dx : Pitches, dy : Pitches,
                phase : 0..MaxPhase, phase_offset : PhaseOffsets, amp_profile : {1}]
    /\ state = "Unconfigured"
    /\ call = None
    /\ interpolate = FALSE
    /\ shape = None
    /\ exposure = 0
    /\ x_grid = None
    /\ y_grid = None
    /\ f_eff = None
    /\ shape_padded = None
    /\ hologram = None
    /\ holograms = 0
    /\ err = None
    /\ last = [op |-> "none", arg |-> None, ret |-> None, prev_phase |-> None]

\* SimulatedCam(slm, resolution, f_eff, theta, offset, basis)
Construct(resolution, f_eff_arg, theta, offset, basis) ==
    LET res == Resolution(resolution)
        g == CameraGrid(resolution, theta, offset)
        f_min == FMin(g.x, g.y)
        f == IF f_eff_arg = None THEN f_min ELSE RInt(f_eff_arg[1])
        padded == CalculatePaddedShape(RDiv(RInt(1), f))
    IN  /\ state = "Unconfigured"
        /\ call' = Some([resolution |-> resolution, f_eff |-> f_eff_arg,
                         theta |-> theta, offset |-> offset, basis |-> basis])
        /\ interpolate' = InterpolateFlag(resolution, theta, offset)
        /\ shape' = CameraShape(res[1], res[2])
        /\ exposure' = 1
        /\ x_grid' = g.x
        /\ y_grid' = g.y
        /\ last' = [op |-> "__init__", arg |-> None, ret |-> None, prev_phase |-> None]
        /\ IF f_eff_arg # None /\ FEffTooSmall(RInt(f_eff_arg[1]), f_min)
           THEN /\ state' = "Failed"
                /\ err' = Some("RuntimeError")
                /\ UNCHANGED <<f_eff, shape_padded, hologram, holograms>>
           ELSE /\ state' = "Ready"
                /\ f_eff' = Some(f)
                /\ shape_padded' = padded
                /\ hologram' = Some(Hologram(padded, slm.amp_profile, LivePhase))
                /\ holograms' = holograms + 1
                /\ UNCHANGED err
        /\ UNCHANGED slm

\* SimulatedCam.flush()
Flush ==
    /\ state = "Ready"
    /\ last' = [op |-> "flush", arg |-> None, ret |-> None, prev_phase |-> None]
    /\ UNCHANGED <<slm, state, call, camera, err>>

\* Mutation of StoredExposure: the gain is clamped to at least 1.
StoredExposureClamped(v) == IF v < 1 THEN 1 ELSE v

\* The value set_exposure stores.
StoredExposure(v) == v

\* SimulatedCam.set_exposure(v)
SetExposure(v) ==
    /\ state = "Ready"
    /\ exposure' = StoredExposure(v)
    /\ last' = [op |-> "set_exposure", arg |-> Some(v), ret |-> None,
                prev_phase |-> None]
    /\ UNCHANGED <<slm, state, call, interpolate, shape, x_grid, y_grid, f_eff,
                   shape_padded, hologram, holograms, err>>

\* SimulatedCam.get_exposure()
GetExposure ==
    /\ state = "Ready"
    /\ last' = [op |-> "get_exposure", arg |-> None, ret |-> Some(exposure),
                prev_phase |-> None]
    /\ UNCHANGED <<slm, state, call, camera, err>>

\* Mutation of Refreshed: the engine keeps the phase it holds.
NotRefreshed(h) == h

\* The engine after get_image has refreshed its phase.
Refreshed(h) == ResetPhase(h, LivePhase)

\* SimulatedCam.get_image(plot)
GetImage(plot) ==
    /\ state = "Ready"
    /\ hologram' = Some(Refreshed(hologram[1]))
    /\ last' = [op |-> "get_image", arg |-> Some(plot),
                ret |-> Some(Image(ExtractFarfield(Refreshed(hologram[1])))),
                prev_phase |-> Some(hologram[1].phase)]
    /\ UNCHANGED <<slm, state, call, interpolate, shape, exposure, x_grid, y_grid,
                   f_eff, shape_padded, holograms, err>>

\* The SLM's owner writes a phase pattern to it.
WritePhase(p) ==
    /\ p # slm.phase
    /\ slm' = [slm EXCEPT !.phase = p]
    /\ UNCHANGED <<state, call, camera, err, last>>

Next ==
    \/ \E resolution \in Resolutions, f \in FEffs, theta \in Thetas,
          offset \in Offsets, basis \in Bases :
          Construct(resolution, f, theta, offset, basis)
    \/ Flush
    \/ \E v \in 0..MaxExposure : SetExposure(v)
    \/ GetExposure
    \/ \E plot \in BOOLEAN : GetImage(plot)
    \/ \E p \in 0..MaxPhase : WritePhase(p)

Spec == Init /\ [][Next]_vars

\* ------------------------------------------------------------ claims
\* The constructor's arguments, once it has been called.
Args == call[1]
Constructed == state # "Unconfigured"
Width == Resolution(Args.resolution)[1]
Height == Resolution(Args.resolution)[2]
Pixels == (1..Height) \X (1..Width)

\* The least focal length F with 2 |x| dx <= F and 2 |y| dy <= F at every
\* pixel of the camera grid the object holds.
FocalBound ==
    RMaxOver({RMul(RAbs(x_grid[p[1]][p[2]]), RInt(2 * slm.dx)) : p \in Pixels}
             \cup {RMul(RAbs(y_grid[p[1]][p[2]]), RInt(2 * slm.dy)) : p \in Pixels})

Supplied == RInt(Args.f_eff[1])

\* C1: a supplied f_eff equal to f_min is accepted and kept; a supplied
\* f_eff below f_min raises the configuration error, the camera is not
\* Ready and no far-field engine has been constructed.
Thm_C1 ==
    (Constructed /\ Args.f_eff # None) =>
        /\ Supplied = FocalBound => (state = "Ready" /\ f_eff = Some(Supplied))
        /\ RLt(Supplied, FocalBound) =>
              /\ state = "Failed"
              /\ err = Some("RuntimeError")
              /\ hologram = None
              /\ holograms = 0

\* A camera built with a supplied f_eff exactly f_min, on a shifted grid.
Wit_C1 ==
    /\ state = "Ready"
    /\ Args.f_eff # None
    /\ Supplied = FocalBound
    /\ Args.offset # None

\* A construction that failed because f_eff was below f_min.
Wit_C1_Failed ==
    /\ state = "Failed"
    /\ RLt(Supplied, FocalBound)

\* C2: with f_eff omitted the camera's f_eff is f_min; every Ready camera
\* has f_eff >= f_min of its own grid.
Thm_C2 ==
    state = "Ready" =>
        /\ Args.f_eff = None => f_eff = Some(FocalBound)
        /\ RLe(FocalBound, f_eff[1])

\* A camera built without f_eff on a rotated, shifted grid of an SLM with
\* unequal pitches.
Wit_C2 ==
    /\ state = "Ready"
    /\ Args.f_eff = None
    /\ Args.theta = "atan(3/4)"
    /\ Args.offset \notin {None, <<0, 0>>}
    /\ slm.dx # slm.dy

ResolutionDiffers ==
    Resolution(Args.resolution) # Reversed(slm.shape)
OffsetNonZero == Args.offset # None /\ Args.offset # <<0, 0>>

\* C3: the interpolation flag is true exactly when the resolution differs
\* from the SLM's shape, or theta is non-zero, or the offset is non-zero.
Cex_C3 ==
    Constructed =>
        (interpolate <=> (ResolutionDiffers \/ Args.theta # "0" \/ OffsetNonZero))

\* theta = 0, zero offset, resolution equal to the SLM's shape.
IdentityConfiguration ==
    /\ ~ResolutionDiffers
    /\ Args.theta = "0"
    /\ ~OffsetNonZero

\* The far-field intensity the engine gives for the phase it holds.
HeldIntensity == Intensity(ExtractFarfield(hologram[1]))

\* C4: in the identity configuration the interpolation path and the direct
\* path of get_image give the same image.
Cex_C4 ==
    (state = "Ready" /\ last.op = "get_image" /\ IdentityConfiguration) =>
        MapCoordinates(HeldIntensity,
                       Coordinates(x_grid, y_grid, f_eff[1], shape_padded))
          = Unpad(HeldIntensity, shape)

\* C5: the image get_image returns, and the arrays x_grid and y_grid, have
\* shape (height, width) of the camera resolution.
Thm_C5 ==
    state = "Ready" =>
        /\ Shape(x_grid) = <<Height, Width>>
        /\ Shape(y_grid) = <<Height, Width>>
        /\ last.op = "get_image" => Shape(last.ret[1]) = <<Height, Width>>

\* An image of a non-square camera taken on the interpolation path from a
\* padded far field of another shape.
Wit_C5 ==
    /\ state = "Ready"
    /\ last.op = "get_image"
    /\ interpolate
    /\ Width # Height
    /\ shape_padded # <<Height, Width>>

\* The index of pixel p into the padded intensity along each axis.
RowIndex(p) == Index(shape_padded[1], f_eff[1], slm.dy, y_grid[p[1]][p[2]])
ColIndex(p) == Index(shape_padded[2], f_eff[1], slm.dx, x_grid[p[1]][p[2]])
OutOfRange(v, size) == RLt(v, RInt(0)) \/ RLe(RInt(size), v)
Outside(p) ==
    \/ OutOfRange(RowIndex(p), shape_padded[1])
    \/ OutOfRange(ColIndex(p), shape_padded[2])

\* C6: on the interpolation path a pixel whose index is outside the padded
\* array on either axis has intensity zero in the image.
Thm_C6 ==
    (state = "Ready" /\ last.op = "get_image" /\ interpolate) =>
        \A p \in Pixels : Outside(p) => last.ret[1][p[1]][p[2]] = 0

\* An image with a pixel outside the padded array and a pixel inside it
\* that is not zero.
Wit_C6 ==
    /\ state = "Ready"
    /\ last.op = "get_image"
    /\ interpolate
    /\ \E p \in Pixels : Outside(p) /\ last.ret[1][p[1]][p[2]] = 0
    /\ \E p \in Pixels : ~Outside(p) /\ last.ret[1][p[1]][p[2]] # 0

\* C7: no camera is Ready with a basis other than "ij".
Cex_C7 == state = "Ready" => Args.basis = "ij"

\* C8: before rotation and translation the grid's column coordinates are
\* -W/2, -W/2 + 1, ..., W/2 - 1 and its row coordinates -H/2, ..., H/2 - 1.
Cex_C8 ==
    (Constructed /\ Args.theta = "0" /\ Args.offset = None) =>
        \A p \in Pixels :
            /\ x_grid[p[1]][p[2]] = RAdd(Rat(-Width, 2), RInt(p[2] - 1))
            /\ y_grid[p[1]][p[2]] = RAdd(Rat(-Height, 2), RInt(p[1] - 1))

\* C9: once the camera is Ready no call changes x_grid, y_grid,
\* shape_padded, f_eff or the interpolation flag; the exposure is 1 after
\* construction, changes only in set_exposure, which stores its argument,
\* and get_exposure returns it.
Thm_C9 ==
    /\ [](state = "Ready" /\ last.op = "__init__" => exposure = 1)
    /\ [][state = "Ready" =>
            /\ UNCHANGED <<x_grid, y_grid, shape_padded, f_eff, interpolate>>
            /\ last'.op # "set_exposure" => exposure' = exposure
            /\ last'.op = "set_exposure" => exposure' = last'.arg[1]
            /\ last'.op = "get_exposure" => last'.ret = Some(exposure')]_vars

\* get_exposure has returned a value other than the initial 1, which
\* set_exposure stored.
Wit_C9 ==
    /\ state = "Ready"
    /\ last.op = "get_exposure"
    /\ last.ret # Some(1)

\* A step of get_image.
GetImageStep ==
    /\ state = "Ready"
    /\ \/ hologram' # hologram
       \/ last' # last /\ last'.op = "get_image"

\* C10: every get_image sets the phase of the one engine built at
\* construction to the SLM's phase + phase_offset of that moment and
\* returns the image of the far field of that phase.
Thm_C10 ==
    [][GetImageStep =>
          /\ hologram'[1].phase = slm.phase + slm.phase_offset
          /\ holograms' = 1
          /\ last'.ret = Some(Image(ExtractFarfield(
                 Hologram(shape_padded, slm.amp_profile,
                          slm.phase + slm.phase_offset))))]_vars

\* An image taken after the SLM's phase was written: the engine held
\* another phase when get_image began.
Wit_C10 ==
    /\ state = "Ready"
    /\ last.op = "get_image"
    /\ last.prev_phase # Some(hologram[1].phase)
    /\ hologram[1].phase = slm.phase + slm.phase_offset
    /\ exposure # 0

====
